---- MODULE Spec2Model ----
(***************************************************************************)
(* A model of the ARIA conversational backend: the text turn of            *)
(* backend/app/main.py (capability gate, prompt enhancement, context       *)
(* assembly, LLM call, persona filter, bounded history) and the speech     *)
(* pipeline of backend/app/services/speech_service.py (TTS engine          *)
(* selection, mode-switch detection, the speech-to-speech turn) together   *)
(* with the LLM gateway of backend/app/services/llm_service.py.            *)
(*                                                                         *)
(* Texts are TLA+ strings; Python's str methods are modelled character by  *)
(* character with Len, SubSeq and \o.                                      *)
(***************************************************************************)
EXTENDS Integers, Sequences, FiniteSets, TLC

(***************************************************************************)
(* Python str primitives                                                   *)
(***************************************************************************)
Uppers == "ABCDEFGHIJKLMNOPQRSTUVWXYZ"

Lowers == "abcdefghijklmnopqrstuvwxyz"

Char(s, i) == SubSeq(s, i, i)

IsSpace(c) == c \in {" ", "\t", "\n", "\r"}

IsLowerLetter(c) == \E i \in 1..Len(Lowers) : Char(Lowers, i) = c

LowerChar(c) ==
    IF \E i \in 1..Len(Uppers) : Char(Uppers, i) = c
    THEN Char(Lowers, CHOOSE i \in 1..Len(Uppers) : Char(Uppers, i) = c)
    ELSE c

UpperChar(c) ==
    IF \E i \in 1..Len(Lowers) : Char(Lowers, i) = c
    THEN Char(Uppers, CHOOSE i \in 1..Len(Lowers) : Char(Lowers, i) = c)
    ELSE c

\* "".join(parts), by halves so that the evaluation depth stays logarithmic
RECURSIVE concat(_, _, _)
concat(parts, lo, hi) ==
    IF lo > hi THEN ""
    ELSE IF lo = hi THEN parts[lo]
    ELSE LET mid == (lo + hi) \div 2
         IN  concat(parts, lo, mid) \o concat(parts, mid + 1, hi)

join(parts) == concat(parts, 1, Len(parts))

str_lower(s) == join([i \in 1..Len(s) |-> LowerChar(Char(s, i))])

str_upper(s) == join([i \in 1..Len(s) |-> UpperChar(Char(s, i))])

str_lstrip(s) ==
    LET solid == {i \in 1..Len(s) : ~IsSpace(Char(s, i))}
    IN  IF solid = {} THEN ""
        ELSE SubSeq(s, CHOOSE i \in solid : \A j \in solid : i <= j, Len(s))

str_rstrip(s) ==
    LET solid == {i \in 1..Len(s) : ~IsSpace(Char(s, i))}
    IN  IF solid = {} THEN ""
        ELSE SubSeq(s, 1, CHOOSE i \in solid : \A j \in solid : j <= i)

str_strip(s) == str_rstrip(str_lstrip(s))

str_startswith(s, p) == Len(s) >= Len(p) /\ SubSeq(s, 1, Len(p)) = p

str_endswith(s, p) == Len(s) >= Len(p) /\ SubSeq(s, Len(s) - Len(p) + 1, Len(s)) = p

\* Python's `sub in s`
str_in(sub, s) ==
    \E i \in 1..(Len(s) - Len(sub) + 1) : SubSeq(s, i, i + Len(sub) - 1) = sub

\* any(keyword in text for keyword in keywords)
any_in(keywords, text) == \E k \in keywords : str_in(k, text)

(***************************************************************************)
(* Persona functions of main.py                                            *)
(***************************************************************************)
get_error_messages ==
    << "I apologize, but I seem to have encountered a slight technical difficulty. Shall we try that again?",
       "My circuits are feeling a bit scrambled at the moment. Could you repeat your request?",
       "I'm afraid something went awry on my end. Perhaps we could approach this differently?",
       "It appears I've hit a minor snag. Let me gather my wits and we'll try once more.",
       "Technical difficulties, I'm afraid. Even AI assistants have their off moments!" >>

\* The system prompt is an opaque constant text; only its identity matters.
get_system_prompt == "You are ARIA, a sophisticated AI assistant with wit and personality."

time_keywords == {"today", "now", "current", "time", "date", "schedule", "calendar"}

\* The clock is read as an hour of the day; strftime's output is abstracted to
\* the hour, the derived day-part label is computed as the code computes it.
get_time_context(hour) ==
    LET time_of_day ==
            IF 5 <= hour /\ hour < 12 THEN "morning"
            ELSE IF 12 <= hour /\ hour < 17 THEN "afternoon"
            ELSE IF 17 <= hour /\ hour < 21 THEN "evening"
            ELSE "night"
    IN  "It's currently " \o ToString(hour) \o ":00 (" \o time_of_day \o ")"

enhance_prompt(user_input, hour) ==
    IF any_in(time_keywords, str_lower(user_input))
    THEN "Current time context: " \o get_time_context(hour)
             \o "\n\nUser query: " \o user_input
    ELSE user_input

start_flourishes ==
    << "I must say, ", "Indeed, ", "Quite right, ", "Certainly, ", "Absolutely, " >>

end_flourishes ==
    << " I do hope that helps!", " Anything else you'd like to know?",
       " Will that suffice?", " I trust that's useful?",
       " Does that answer your question?" >>

greeting_prefixes == {"hello", "hi", "good", "greetings"}

\* rolls: the values random.random() and random.choice() produce in one call:
\*   skip   random.random() > 0.3   (no enhancement at all)
\*   start  random.random() < 0.4,  startc  index chosen among the start flourishes
\*   end    random.random() < 0.3,  endc    index chosen among the end flourishes
\*   err    index chosen among the error messages
add_personality_flourishes(response, rolls) ==
    IF rolls.skip THEN response
    ELSE
      LET s1 == IF rolls.start
                   /\ ~ \E g \in greeting_prefixes : str_startswith(str_lower(response), g)
                THEN LET e == start_flourishes[rolls.startc] \o str_lower(response)
                     IN  UpperChar(Char(e, 1)) \o SubSeq(e, 2, Len(e))
                ELSE response
      IN  IF rolls.end /\ ~ str_endswith(response, "?") /\ Len(response) > 50
          THEN s1 \o end_flourishes[rolls.endc]
          ELSE s1

IsEndPunct(c) == c \in {".", "!", "?"}

\* s[lo..hi] is all whitespace (true of an empty range)
AllSpace(s, lo, hi) == \A k \in lo..hi : IsSpace(Char(s, k))

\* re.sub(r'\s+', ' ', text): each maximal whitespace run becomes one space
collapse_ws(s) ==
    join([i \in 1..Len(s) |->
            IF IsSpace(Char(s, i))
            THEN (IF i > 1 /\ IsSpace(Char(s, i - 1)) THEN "" ELSE " ")
            ELSE Char(s, i)])

\* re.sub(r'\s+([.!?])', r'\1', text): whitespace that runs up to a . ! ? is removed
strip_ws_before_punct(s) ==
    join([i \in 1..Len(s) |->
            IF IsSpace(Char(s, i))
               /\ \E j \in (i + 1)..Len(s) :
                      IsEndPunct(Char(s, j)) /\ AllSpace(s, i, j - 1)
            THEN "" ELSE Char(s, i)])

\* re.sub(r'([.!?])\s*([a-z])', r'\1 \2', text): the whitespace (possibly none)
\* between a . ! ? and a following lower-case letter becomes one space. A match
\* ends on a letter and begins on a punctuation mark, so matches never overlap.
space_after_punct(s) ==
    LET opens(i) == IsEndPunct(Char(s, i))
                    /\ \E j \in (i + 1)..Len(s) :
                           IsLowerLetter(Char(s, j)) /\ AllSpace(s, i + 1, j - 1)
        inside(p) == IsSpace(Char(s, p))
                     /\ \E i \in 1..(p - 1) : opens(i) /\ AllSpace(s, i + 1, p)
    IN  join([p \in 1..Len(s) |->
                IF opens(p) THEN Char(s, p) \o " "
                ELSE IF inside(p) THEN ""
                ELSE Char(s, p)])

\* Mutant: the text is stripped before its first character is capitalized
clean_formatting_strip_first(text) ==
    IF text = "" THEN text
    ELSE
      LET t0 == str_strip(text)
          t1 == IF t0 = "" THEN t0
                ELSE UpperChar(Char(t0, 1)) \o SubSeq(t0, 2, Len(t0))
          t2 == IF \E p \in {".", "!", "?", ":"} : str_endswith(t1, p)
                THEN t1 ELSE t1 \o "."
      IN  str_strip(space_after_punct(strip_ws_before_punct(collapse_ws(t2))))

clean_formatting(text) ==
    IF text = "" THEN text
    ELSE
      LET t1 == IF Len(text) > 1
                THEN UpperChar(Char(text, 1)) \o SubSeq(text, 2, Len(text))
                ELSE str_upper(text)
          t2 == IF \E p \in {".", "!", "?", ":"} : str_endswith(t1, p)
                THEN t1 ELSE t1 \o "."
      IN  str_strip(space_after_punct(strip_ws_before_punct(collapse_ws(t2))))

\* Mutant: only the empty text is answered from the pool; a whitespace-only
\* text goes on to the flourishes and the formatting
filter_response_blank_formatted(ai_response, rolls) ==
    IF ai_response = ""
    THEN get_error_messages[rolls.err]
    ELSE clean_formatting(add_personality_flourishes(str_strip(ai_response), rolls))

filter_response(ai_response, rolls) ==
    IF ai_response = "" \/ str_strip(ai_response) = ""
    THEN get_error_messages[rolls.err]
    ELSE clean_formatting(add_personality_flourishes(str_strip(ai_response), rolls))

\* Mutant: a query that names no particular capability is handed back as it came
handle_capability_query_echo_default(query) ==
    LET query_lower == str_lower(query)
    IN  IF any_in({"speak", "voice", "audio", "speech"}, query_lower)
        THEN "I'm afraid I haven't quite mastered the art of speech yet - that's coming in Phase 2! For now, I'm quite content with our text-based conversations."
        ELSE IF any_in({"calendar", "schedule", "appointment"}, query_lower)
        THEN "Calendar integration is on my to-do list for Phase 3. Until then, I'm happy to help you think through scheduling matters the old-fashioned way!"
        ELSE IF any_in({"search", "google", "web", "internet"}, query_lower)
        THEN "Web search capabilities are planned for Phase 5. For now, I'll have to rely on my existing knowledge base - though I like to think it's rather comprehensive!"
        ELSE IF any_in({"document", "pdf", "file", "analyze"}, query_lower)
        THEN "Document analysis is scheduled for Phase 4. Currently, I can't peek at your files, but I'm happy to discuss their contents if you'd like to share excerpts!"
        ELSE query

handle_capability_query(query) ==
    LET query_lower == str_lower(query)
    IN  IF any_in({"speak", "voice", "audio", "speech"}, query_lower)
        THEN "I'm afraid I haven't quite mastered the art of speech yet - that's coming in Phase 2! For now, I'm quite content with our text-based conversations."
        ELSE IF any_in({"calendar", "schedule", "appointment"}, query_lower)
        THEN "Calendar integration is on my to-do list for Phase 3. Until then, I'm happy to help you think through scheduling matters the old-fashioned way!"
        ELSE IF any_in({"search", "google", "web", "internet"}, query_lower)
        THEN "Web search capabilities are planned for Phase 5. For now, I'll have to rely on my existing knowledge base - though I like to think it's rather comprehensive!"
        ELSE IF any_in({"document", "pdf", "file", "analyze"}, query_lower)
        THEN "Document analysis is scheduled for Phase 4. Currently, I can't peek at your files, but I'm happy to discuss their contents if you'd like to share excerpts!"
        ELSE "Currently, I'm equipped with basic conversation and personality features. Coming soon: speech, calendar, document analysis, and web search. I'm growing more capable by the day!"

(***************************************************************************)
(* Context manager of main.py                                              *)
(***************************************************************************)
MAX_HISTORY == 10

\* seq[-n:]
LastN(seq, n) == SubSeq(seq, IF Len(seq) > n THEN Len(seq) - n + 1 ELSE 1, Len(seq))

\* messages.extend([user, assistant]) for each exchange, oldest first
RECURSIVE flatten(_)
flatten(exchanges) ==
    IF exchanges = <<>> THEN <<>>
    ELSE << [role |-> "user", content |-> Head(exchanges).user],
            [role |-> "assistant", content |-> Head(exchanges).assistant] >>
         \o flatten(Tail(exchanges))

\* Mutant: the exchanges are emitted newest first
RECURSIVE flatten_newest_first(_)
flatten_newest_first(exchanges) ==
    IF exchanges = <<>> THEN <<>>
    ELSE flatten_newest_first(Tail(exchanges))
         \o << [role |-> "user", content |-> Head(exchanges).user],
               [role |-> "assistant", content |-> Head(exchanges).assistant] >>

build_context_newest_first(history, current_prompt) ==
    << [role |-> "system", content |-> get_system_prompt] >>
    \o flatten_newest_first(LastN(history, MAX_HISTORY))
    \o << [role |-> "user", content |-> current_prompt] >>

build_conversation_context(history, current_prompt) ==
    << [role |-> "system", content |-> get_system_prompt] >>
    \o flatten(LastN(history, MAX_HISTORY))
    \o << [role |-> "user", content |-> current_prompt] >>

\* Mutant: the append without the trim
update_without_trim(history, user_input, assistant_response, ts) ==
    Append(history, [user |-> user_input, assistant |-> assistant_response,
                     timestamp |-> ts])

\* Mutant: the record writes back a list built before the other turns'
\* records, so that theirs are lost
update_from_stale_list(history, user_input, assistant_response, ts) ==
    << [user |-> user_input, assistant |-> assistant_response, timestamp |-> ts] >>

\* Mutant: the trim keeps the oldest MAX_HISTORY exchanges (history[:MAX_HISTORY])
update_keep_oldest(history, user_input, assistant_response, ts) ==
    LET appended == Append(history, [user |-> user_input,
                                     assistant |-> assistant_response,
                                     timestamp |-> ts])
    IN  IF Len(appended) > MAX_HISTORY THEN SubSeq(appended, 1, MAX_HISTORY) ELSE appended

update_conversation_history(history, user_input, assistant_response, ts) ==
    LET appended == Append(history, [user |-> user_input,
                                     assistant |-> assistant_response,
                                     timestamp |-> ts])
    IN  IF Len(appended) > MAX_HISTORY THEN LastN(appended, MAX_HISTORY) ELSE appended

(***************************************************************************)
(* The text turn: chat_with_ollama of main.py                              *)
(***************************************************************************)
capability_keywords ==
    {"what can you do", "capabilities", "features", "help", "speak", "voice",
     "calendar", "search", "document"}

timeout_suffix == " (Request timed out - make sure Ollama is running with 'ollama serve')"

connect_suffix == " (Cannot connect to Ollama - make sure it's running with 'ollama serve')"

technical_prefix == " (Technical details: "

\* What the await on client.post yields: a response (status, body) or a raised
\* httpx exception. body is "content" (a message with content), "nomessage"
\* (valid JSON without a message) or "malformed" (response.json() raises).
LLMResponse(status, body, content) ==
    [kind |-> "response", status |-> status, body |-> body, content |-> content]

LLMRaises(kind) == [kind |-> kind, status |-> 0, body |-> "none", content |-> ""]

\* Mutant: the HTTPException raised for a status other than 200 passes the
\* generic handler and reaches the client with the runtime's status
generic_failure_keeps_status(outcome, rolls) ==
    LET e == IF outcome.kind = "response" /\ outcome.status # 200
             THEN ToString(outcome.status) \o ": Ollama API error: " \o outcome.content
             ELSE IF outcome.kind = "response"
             THEN "Expecting value: line 1 column 1 (char 0)"
             ELSE IF outcome.kind = "timeout" THEN "timed out"
             ELSE IF outcome.kind = "connect" THEN "All connection attempts failed"
             ELSE "Server disconnected without sending a response."
    IN  [code |-> IF outcome.kind = "response" /\ outcome.status # 200
                  THEN outcome.status ELSE 500,
         text |-> get_error_messages[rolls.err] \o technical_prefix \o e \o ")",
         record |-> FALSE]

\* The generic handler: except Exception as e
generic_failure(outcome, rolls) ==
    LET e == IF outcome.kind = "response" /\ outcome.status # 200
             THEN ToString(outcome.status) \o ": Ollama API error: " \o outcome.content
             ELSE IF outcome.kind = "response"
             THEN "Expecting value: line 1 column 1 (char 0)"
             ELSE IF outcome.kind = "timeout" THEN "timed out"
             ELSE IF outcome.kind = "connect" THEN "All connection attempts failed"
             ELSE "Server disconnected without sending a response."
    IN  [code |-> 500,
         text |-> get_error_messages[rolls.err] \o technical_prefix \o e \o ")",
         record |-> FALSE]

\* Mutant: no handler for httpx.TimeoutException, the generic one takes it
after_post_no_timeout_handler(message, outcome, rolls) ==
    IF outcome.kind = "connect"
    THEN [code |-> 503, text |-> get_error_messages[rolls.err] \o connect_suffix,
          record |-> FALSE]
    ELSE IF outcome.kind = "response" /\ outcome.status = 200 /\ outcome.body # "malformed"
    THEN LET raw_response == IF outcome.body = "content" THEN outcome.content
                             ELSE "No response from model"
         IN  [code |-> 200, text |-> filter_response(raw_response, rolls), record |-> TRUE]
    ELSE generic_failure(outcome, rolls)

\* Mutant: the timeout handler also catches the connection failure
after_post_connect_as_timeout(message, outcome, rolls) ==
    IF outcome.kind \in {"timeout", "connect"}
    THEN [code |-> 408, text |-> get_error_messages[rolls.err] \o timeout_suffix,
          record |-> FALSE]
    ELSE IF outcome.kind = "response" /\ outcome.status = 200 /\ outcome.body # "malformed"
    THEN LET raw_response == IF outcome.body = "content" THEN outcome.content
                             ELSE "No response from model"
         IN  [code |-> 200, text |-> filter_response(raw_response, rolls), record |-> TRUE]
    ELSE generic_failure(outcome, rolls)

\* The part of chat_with_ollama after the await: the HTTP answer of the turn
\* (code, text) and, for a success, the exchange to record.
after_post(message, outcome, rolls) ==
    IF outcome.kind = "timeout"
    THEN [code |-> 408, text |-> get_error_messages[rolls.err] \o timeout_suffix,
          record |-> FALSE]
    ELSE IF outcome.kind = "connect"
    THEN [code |-> 503, text |-> get_error_messages[rolls.err] \o connect_suffix,
          record |-> FALSE]
    ELSE IF outcome.kind = "response" /\ outcome.status = 200 /\ outcome.body # "malformed"
    THEN LET raw_response == IF outcome.body = "content" THEN outcome.content
                             ELSE "No response from model"
         IN  [code |-> 200, text |-> filter_response(raw_response, rolls), record |-> TRUE]
    ELSE generic_failure(outcome, rolls)

\* Mutant: the exchange is recorded under the prompt that was sent to the model
turn_exchange_enhanced_prompt(message, enhanced_prompt, enhanced_response) ==
    [user |-> enhanced_prompt, assistant |-> enhanced_response]

\* What a successful turn hands to update_conversation_history: the message as
\* submitted and the filtered response that is returned to the caller.
turn_exchange(message, enhanced_prompt, enhanced_response) ==
    [user |-> message, assistant |-> enhanced_response]

(***************************************************************************)
(* LLM gateway: LLMService of llm_service.py                               *)
(***************************************************************************)
max_history == 10

\* Python's str() of a list of strings: ['a', 'b']
py_list_str(names) ==
    "[" \o join([i \in 1..Len(names) |->
                    (IF i > 1 THEN ", " ELSE "") \o "'" \o names[i] \o "'"]) \o "]"

\* What the GET on /api/tags does: the request raises ("client_error": an
\* aiohttp.ClientError, "exception": anything else, such as the total timeout)
\* or answers with a status and a body: "listing" (the models named), "nomodels"
\* (JSON without the "models" key), "content_type" (not JSON: response.json()
\* raises ContentTypeError, a ClientError), "malformed" (an entry without
\* "name": KeyError).
HealthRaises(kind, detail) ==
    [kind |-> kind, status |-> 0, body |-> "none", names |-> << >>, detail |-> detail]

HealthResponse(status, body, names, detail) ==
    [kind |-> "response", status |-> status, body |-> body, names |-> names,
     detail |-> detail]

\* Mutant: the model is looked up in the listing before the status is checked
health_check_model_first(model_name, o) ==
    IF o.kind = "client_error" THEN "Connection error: " \o o.detail
    ELSE IF o.kind = "exception" THEN "Error: " \o o.detail
    ELSE IF o.body = "content_type" THEN "Connection error: " \o o.detail
    ELSE IF o.body = "malformed" THEN "Error: " \o o.detail
    ELSE IF \A i \in DOMAIN o.names : o.names[i] # model_name
    THEN "Model " \o model_name \o " not found. Available: " \o py_list_str(o.names)
    ELSE IF o.status # 200 THEN "Ollama server not responding"
    ELSE "healthy"

\* health_check: the status, the listing, the two except clauses
health_check(model_name, o) ==
    IF o.kind = "client_error" THEN "Connection error: " \o o.detail
    ELSE IF o.kind = "exception" THEN "Error: " \o o.detail
    ELSE IF o.status # 200 THEN "Ollama server not responding"
    ELSE IF o.body = "content_type" THEN "Connection error: " \o o.detail
    ELSE IF o.body = "malformed" THEN "Error: " \o o.detail
    ELSE IF \A i \in DOMAIN o.names : o.names[i] # model_name
    THEN "Model " \o model_name \o " not found. Available: " \o py_list_str(o.names)
    ELSE "healthy"

LLM_update_conversation_history(history, user_input, assistant_response, ts) ==
    LET appended == Append(history, [user |-> user_input,
                                     assistant |-> assistant_response,
                                     timestamp |-> ts])
    IN  IF Len(appended) > max_history THEN LastN(appended, max_history) ELSE appended

\* One line of a streamed body, as `async for line in response.content` yields
\* it:
\*   "content"       a JSON object whose message carries content
\*   "nomessage"     a JSON object without message.content
\*   "empty"         an empty line
\*   "invalid_json"  text that json.loads rejects (json.JSONDecodeError)
\*   "bad_utf8"      bytes that line.decode("utf-8") rejects (UnicodeDecodeError)
\*   "not_object"    JSON text of a value that is no object, such as 42 or null
\*                   (TypeError or AttributeError on `in` and .get)
\* done: the object's "done" field, False when it has none
Chunk(kind, content, done) == [kind |-> kind, content |-> content, done |-> done]

\* The loop of _handle_streaming_response from line i on, full_response so far
RECURSIVE stream_from(_, _, _)
stream_from(chunks, i, full_response) ==
    IF i > Len(chunks)
    THEN [raised |-> FALSE, text |-> str_strip(full_response), consumed |-> Len(chunks)]
    ELSE LET line == chunks[i]
         IN  IF line.kind \in {"empty", "invalid_json"}
             THEN stream_from(chunks, i + 1, full_response)
             ELSE IF line.kind \in {"bad_utf8", "not_object"}
             THEN [raised |-> TRUE, text |-> "", consumed |-> i]
             ELSE LET grown == IF line.kind = "content"
                               THEN full_response \o line.content
                               ELSE full_response
                  IN  IF line.done
                      THEN [raised |-> FALSE, text |-> str_strip(grown), consumed |-> i]
                      ELSE stream_from(chunks, i + 1, grown)

handle_streaming_response(chunks) == stream_from(chunks, 1, "")

\* Mutant: a streamed call records its exchange as a non-streamed one does
generate_response_stream_recorded(history, prompt_text, stream, outcome, chunks, ts) ==
    IF outcome.kind = "response" /\ outcome.status = 200
       /\ (stream \/ outcome.body # "malformed")
    THEN LET s == handle_streaming_response(chunks)
             assistant_message == IF stream THEN s.text
                                  ELSE IF outcome.body = "content" THEN outcome.content
                                  ELSE ""
         IN  IF stream /\ s.raised
             THEN [raised |-> TRUE, text |-> "", history |-> history]
             ELSE [raised |-> FALSE, text |-> str_strip(assistant_message),
                   history |-> LLM_update_conversation_history(history, prompt_text,
                                                               assistant_message, ts)]
    ELSE [raised |-> TRUE, text |-> "", history |-> history]

\* generate_response(prompt, stream): the text returned or the raise, and the
\* history the call leaves behind. chunks: the lines of the body, read only
\* by a streamed call that was answered with status 200.
generate_response(history, prompt_text, stream, outcome, chunks, ts) ==
    IF outcome.kind = "response" /\ outcome.status = 200
    THEN IF stream
         THEN LET s == handle_streaming_response(chunks)
              IN  [raised |-> s.raised, text |-> s.text, history |-> history]
         ELSE IF outcome.body # "malformed"
         THEN LET assistant_message ==
                      IF outcome.body = "content" THEN outcome.content ELSE ""
              IN  [raised |-> FALSE, text |-> str_strip(assistant_message),
                   history |-> LLM_update_conversation_history(history, prompt_text,
                                                               assistant_message, ts)]
         ELSE [raised |-> TRUE, text |-> "", history |-> history]
    ELSE [raised |-> TRUE, text |-> "", history |-> history]

(***************************************************************************)
(* Speech pipeline: SpeechService of speech_service.py                     *)
(***************************************************************************)
None == "None"

possible_paths ==
    << "./kokoro/kokoro_tts.py", "kokoro", "python -m kokoro", "./models/kokoro/kokoro_tts.py" >>

\* _test_kokoro_path: a .py path is valid when the file exists, a simple
\* command when `path --help` exits 0; a command with a space never is.
\* present: the files that exist and the commands that answer --help.
test_kokoro_path(path, present) ==
    IF str_endswith(path, ".py") /\ path \in present THEN TRUE
    ELSE IF ~str_in(" ", path) THEN path \in present
    ELSE FALSE

\* _initialize_kokoro: the first candidate that passes the probe, else None
initialize_kokoro(present) ==
    LET ok == {i \in DOMAIN possible_paths : test_kokoro_path(possible_paths[i], present)}
    IN  IF ok = {} THEN None
        ELSE possible_paths[CHOOSE i \in ok : \A j \in ok : i <= j]

sample_rate == 16000

\* _generate_silence(duration): a WAV of int(duration * sample_rate) zero
\* samples; the duration is given in tenths of a second.
generate_silence(tenths) == [kind |-> "silence", samples |-> (tenths * sample_rate) \div 10]

EmptyBuffer == [kind |-> "bytes", samples |-> 0]

\* The bytes an engine wrote for a text
EngineAudio(engine, text) == [kind |-> "wav", by |-> engine, text |-> text]

\* One call's outcome: whether it raised, the buffer returned, the stages
\* invoked in order ("kokoro", "espeak", "silence") and the temporary files
\* still on disk when it returns.
Returned(audio, calls, tmp) == [raised |-> FALSE, audio |-> audio, calls |-> calls, tmp |-> tmp]

Raised(calls, tmp) == [raised |-> TRUE, audio |-> EmptyBuffer, calls |-> calls, tmp |-> tmp]

\* What an engine subprocess does: "ok" (exit 0, output written), "blank"
\* (exit 0, the staged file left empty), "nonzero" (exit code not 0), "nofile"
\* (exit 0, the output file gone), "raise" (the subprocess cannot be started).
EngineOutcomes == {"ok", "blank", "nonzero", "nofile", "raise"}

\* Mutant: a failed primary engine falls through to the system fallback engine
kokoro_synthesize_falls_through(text, voice, path, ko, fo) ==
    IF ko = "ok" THEN Returned(EngineAudio("kokoro", text), << "kokoro" >>, {})
    ELSE IF ko = "blank" THEN Returned(EmptyBuffer, << "kokoro" >>, {})
    ELSE IF fo = "ok"
         THEN Returned(EngineAudio("espeak", text), << "kokoro", "espeak" >>, {"kokoro.wav"})
         ELSE Returned(generate_silence(Len(text)), << "kokoro", "espeak", "silence" >>,
                       {"kokoro.wav", "espeak.wav"})

\* _kokoro_synthesize: the try block and its except clause
kokoro_synthesize(text, voice, path, ko, fo) ==
    IF ko = "raise"
    THEN Returned(generate_silence(10), << "kokoro", "silence" >>, {"kokoro.wav"})
    ELSE IF ko = "nonzero"
    THEN Returned(generate_silence(10), << "kokoro", "silence" >>, {"kokoro.wav"})
    ELSE IF ko = "nofile"
    THEN Returned(generate_silence(10), << "kokoro", "silence" >>, {})
    ELSE IF ko = "blank"
    THEN Returned(EmptyBuffer, << "kokoro" >>, {})
    ELSE Returned(EngineAudio("kokoro", text), << "kokoro" >>, {})

\* _fallback_tts: espeak, the try block and its except clause
fallback_tts(text, fo) ==
    IF fo = "raise"
    THEN Returned(generate_silence(Len(text)), << "espeak", "silence" >>, {"espeak.wav"})
    ELSE IF fo = "nonzero"
    THEN Returned(generate_silence(Len(text)), << "espeak", "silence" >>, {"espeak.wav"})
    ELSE IF fo = "nofile"
    THEN Returned(generate_silence(Len(text)), << "espeak", "silence" >>, {})
    ELSE IF fo = "blank"
    THEN Returned(EmptyBuffer, << "espeak" >>, {})
    ELSE Returned(EngineAudio("espeak", text), << "espeak" >>, {})

\* Mutant: no try/except around the engines, a subprocess that cannot be
\* started raises out of synthesize_speech
synthesize_speech_unguarded(text, voice, path, ko, fo) ==
    IF str_strip(text) = "" THEN Returned(EmptyBuffer, << >>, {})
    ELSE IF path # None
         THEN (IF ko = "raise" THEN Raised(<< "kokoro" >>, {"kokoro.wav"})
               ELSE kokoro_synthesize(text, voice, path, ko, fo))
         ELSE (IF fo = "raise" THEN Raised(<< "espeak" >>, {"espeak.wav"})
               ELSE fallback_tts(text, fo))

\* Mutant: no early return for a blank text
synthesize_speech_no_blank_check(text, voice, path, ko, fo) ==
    IF path # None THEN kokoro_synthesize(text, voice, path, ko, fo)
    ELSE fallback_tts(text, fo)

\* synthesize_speech: blank text returns b"" at once; else the discovered
\* engine, or the system fallback when none was discovered; the outer except
\* turns anything raised into one second of silence.
synthesize_speech(text, voice, path, ko, fo) ==
    IF str_strip(text) = "" THEN Returned(EmptyBuffer, << >>, {})
    ELSE LET r == IF path # None THEN kokoro_synthesize(text, voice, path, ko, fo)
                  ELSE fallback_tts(text, fo)
         IN  IF r.raised
             THEN Returned(generate_silence(10), Append(r.calls, "silence"), r.tmp)
             ELSE r

chat_phrases ==
    {"switch to chat", "go to chat", "chat mode", "text mode", "switch to text",
     "stop voice", "disable voice"}

voice_phrases ==
    {"switch to voice", "voice mode", "speech mode", "talk mode", "enable voice",
     "start voice"}

\* Mutant: no phrase is ever recognised
detect_mode_switch_never(text) == None

\* Mutant: only the chat phrases are recognised
detect_mode_switch_chat_only(text) ==
    LET text_lower == str_strip(str_lower(text))
    IN  IF any_in(chat_phrases, text_lower) THEN "chat" ELSE None

\* Mutant: the voice set is checked before the chat set
detect_mode_switch_voice_first(text) ==
    LET text_lower == str_strip(str_lower(text))
    IN  IF any_in(voice_phrases, text_lower) THEN "voice"
        ELSE IF any_in(chat_phrases, text_lower) THEN "chat"
        ELSE None

detect_mode_switch(text) ==
    LET text_lower == str_strip(str_lower(text))
    IN  IF any_in(chat_phrases, text_lower) THEN "chat"
        ELSE IF any_in(voice_phrases, text_lower) THEN "voice"
        ELSE None

\* What the ASR stage does with the audio: "ok" (staged and decoded), "write"
\* (writing the staged file fails), "decode" (the ASR model raises).
AsrOutcomes == {"ok", "write", "decode"}

\* transcribe_audio once the service is initialized: the staged temporary
\* file, the decode inside try/finally, the re-raise; tmp is the set of
\* temporary files still on disk when it returns or raises.
transcribe_audio(asr, text) ==
    IF asr = "write" THEN [raised |-> TRUE, text |-> "", tmp |-> {"asr.wav"}]
    ELSE IF asr = "decode" THEN [raised |-> TRUE, text |-> "", tmp |-> {}]
    ELSE [raised |-> FALSE, text |-> str_strip(text), tmp |-> {}]

\* Mutant: no early return for an empty transcript
empty_transcript_never(transcription) == FALSE

\* process_speech_to_speech: `not transcription.strip()`
empty_transcript(transcription) == str_strip(transcription) = ""

chat_ack == "Switching to chat mode. You can now type your messages."

voice_ack == "Voice mode is already active."

error_msg == "I'm sorry, I encountered an error processing your request."

(***************************************************************************)
(* State                                                                   *)
(***************************************************************************)
VARIABLES
    conversation_history,  \* main.py: the process-wide list of exchanges
    now,                   \* the clock datetime.now() reads, one tick per record
    pc,                    \* per request task: "idle" or "awaiting" (suspended on client.post)
    req,                   \* per task: chat_message.message of the turn in flight
    prompt,                \* per task: the enhanced prompt sent as the last message
    reply,                 \* the HTTP answer most recently returned to a client
    recorded,              \* every exchange recorded since the last clear, in order
    budget,                \* turns that may still be submitted
    messages,              \* the PromptContext last built (context specification)
    llm_history,           \* LLMService.conversation_history
    is_initialized,        \* SpeechService.is_initialized
    kokoro_path,           \* SpeechService.kokoro_path: the discovered engine or None
    synth,                 \* the last synthesize_speech call: its arguments and outcome
    vpc,                   \* the voice turn: "idle", "llm" (awaiting generate_response),
                           \* "synth" (awaiting synthesize_speech) or "communicate"
                           \* (awaiting an engine subprocess that does not exit)
    vprompt,               \* the enhanced prompt handed to the LLM gateway
    vpending,              \* the text handed to synthesize_speech, returned with the audio
    vturn,                 \* the running or last voice turn: transcript, steps taken, failures
    vresult,               \* what the last finished voice turn returned or raised
    vbudget,               \* voice turns that may still be started
    mode_switch,           \* the last detect_mode_switch call on its own: text and result
    health,                \* LLMService.model_name and the last health_check: outcome, report
    persona,               \* the last persona-filter call on its own: function, input, rolls, output
    gen,                   \* the last generate_response call on its own: arguments, outcome, result
    boot                   \* SpeechService.initialize calls in flight, and what they did so far

text_vars == << conversation_history, pc, req, prompt, reply, recorded, budget, messages >>

probe_vars == << mode_switch, health, persona, gen, boot >>

speech_vars ==
    << llm_history, is_initialized, kokoro_path, synth, vpc, vprompt, vpending, vturn,
       vresult, vbudget, probe_vars >>

vars == << text_vars, now, speech_vars >>

NoReply == [task |-> 0, code |-> 0, text |-> "", called |-> FALSE, cause |-> "none"]

\* Bounds of the explored runs
MaxTurns == 2

MaxDeepTurns == 12

NTasks == 2

Hours == {9, 23}

\* Messages a client submits
Messages == {"hi", "", "Help me", "what time is it?"}

DeepMessages == {"hi"}

Outcomes ==
    {LLMResponse(200, "content", c) : c \in {"", "ok then"}}
    \cup {LLMResponse(200, "nomessage", ""), LLMResponse(200, "malformed", ""),
          LLMResponse(404, "content", "model not found"),
          LLMRaises("timeout"), LLMRaises("connect"), LLMRaises("error")}

DeepOutcomes == {LLMResponse(200, "content", "ok then"), LLMRaises("timeout")}

Roll(skip, start, startc, end, endc, err) ==
    [skip |-> skip, start |-> start, startc |-> startc, end |-> end, endc |-> endc,
     err |-> err]

Rolls == {Roll(TRUE, FALSE, 1, FALSE, 1, 1), Roll(FALSE, TRUE, 5, TRUE, 2, 4)}

DeepRolls == {Roll(TRUE, FALSE, 1, FALSE, 1, 1)}

NoSynth == [text |-> "", path |-> None, called |-> FALSE,
            result |-> Returned(EmptyBuffer, << >>, {})]

NoTurn == [heard |-> "", transcript |-> "", tmp |-> {}, began |-> 0, trace |-> << >>,
           failed |-> {}, handling |-> FALSE, done |-> FALSE, abandoned |-> FALSE]

NoResult == [raised |-> FALSE, text |-> "", audio |-> EmptyBuffer, spoken |-> ""]

NoSwitch == [text |-> "", called |-> FALSE, result |-> None]

NoPersona == [op |-> "none", input |-> "", rolls |-> Roll(TRUE, FALSE, 1, FALSE, 1, 1),
              output |-> ""]

NoGen == [called |-> FALSE, stream |-> FALSE, prompt |-> "", outcome |-> LLMRaises("none"),
          chunks |-> << >>, raised |-> FALSE, text |-> "", consumed |-> 0]

\* no initialize call in flight, nothing loaded or probed yet
NoBoot == [at |-> << >>, present |-> {}, loads |-> 0, probes |-> 0, calls |-> 0]

\* settings.OLLAMA_MODEL when the environment does not set it
OLLAMA_MODEL == "llama3.2:3b"

NoHealth(model_name) ==
    [model_name |-> model_name, called |-> FALSE, outcome |-> HealthRaises("none", ""),
     report |-> ""]

\* SpeechService.__init__ and LLMService.__init__ with the configured model
ServicesInit(turns, model_name) ==
    /\ mode_switch = NoSwitch
    /\ health = NoHealth(model_name)
    /\ llm_history = <<>>
    /\ is_initialized = FALSE
    /\ kokoro_path = None
    /\ synth = NoSynth
    /\ vpc = "idle"
    /\ vprompt = ""
    /\ vpending = ""
    /\ vturn = NoTurn
    /\ vresult = NoResult
    /\ vbudget = turns

ProbesInit == persona = NoPersona /\ gen = NoGen /\ boot = NoBoot

SpeechInit(turns) == ServicesInit(turns, OLLAMA_MODEL) /\ ProbesInit

TextInit(ntasks, turns) ==
    /\ conversation_history = <<>>
    /\ now = 0
    /\ pc = [t \in 1..ntasks |-> "idle"]
    /\ req = [t \in 1..ntasks |-> ""]
    /\ prompt = [t \in 1..ntasks |-> ""]
    /\ reply = NoReply
    /\ recorded = <<>>
    /\ budget = turns
    /\ messages = <<>>

(***************************************************************************)
(* chat_with_ollama up to the await on client.post: the capability gate    *)
(* answers at once; otherwise the prompt is enhanced, the context built    *)
(* and the request sent (the payload leaves the process and is not kept).  *)
(***************************************************************************)
Submit(t, message, hour) ==
    /\ pc[t] = "idle"
    /\ budget > 0
    /\ budget' = budget - 1
    /\ IF any_in(capability_keywords, str_lower(message))
          /\ handle_capability_query(message) # message
       THEN /\ reply' = [task |-> t, code |-> 200,
                         text |-> handle_capability_query(message),
                         called |-> FALSE, cause |-> "none"]
            /\ UNCHANGED << pc, req, prompt >>
       ELSE LET enhanced_prompt == enhance_prompt(message, hour)
                payload == build_conversation_context(conversation_history,
                                                      enhanced_prompt)
            IN  /\ payload[Len(payload)].content = enhanced_prompt
                /\ pc' = [pc EXCEPT ![t] = "awaiting"]
                /\ req' = [req EXCEPT ![t] = message]
                /\ prompt' = [prompt EXCEPT ![t] = enhanced_prompt]
                /\ UNCHANGED reply
    /\ UNCHANGED << conversation_history, now, recorded, messages, speech_vars >>

(***************************************************************************)
(* chat_with_ollama from the await to its return or raise                  *)
(***************************************************************************)
Respond(t, outcome, rolls) ==
    /\ pc[t] = "awaiting"
    /\ LET r == after_post(req[t], outcome, rolls)
       IN  /\ reply' = [task |-> t, code |-> r.code, text |-> r.text, called |-> TRUE,
                         cause |-> IF outcome.kind = "response"
                                   THEN (IF r.code = 200 THEN "none" ELSE "protocol")
                                   ELSE outcome.kind]
           /\ IF r.record
              THEN LET x == turn_exchange(req[t], prompt[t], r.text)
                   IN  /\ conversation_history' =
                             update_conversation_history(conversation_history, x.user,
                                                         x.assistant, now + 1)
                       /\ recorded' = Append(recorded, [user |-> x.user,
                                                        assistant |-> x.assistant,
                                                        timestamp |-> now + 1])
                       /\ now' = now + 1
              ELSE UNCHANGED << conversation_history, recorded, now >>
    /\ pc' = [pc EXCEPT ![t] = "idle"]
    /\ UNCHANGED << req, prompt, budget, messages, speech_vars >>

\* clear_conversation_history of main.py
Clear ==
    /\ conversation_history # <<>>
    /\ conversation_history' = <<>>
    /\ recorded' = <<>>
    /\ reply' = [task |-> 0, code |-> 200, text |-> "Conversation history cleared",
                 called |-> FALSE, cause |-> "none"]
    /\ UNCHANGED << now, pc, req, prompt, budget, messages, speech_vars >>

\* The request task is cancelled while suspended on client.post (the client
\* went away): CancelledError is not an Exception, no except clause of
\* chat_with_ollama catches it and nothing after the await runs.
Abandon(t) ==
    /\ pc[t] = "awaiting"
    /\ pc' = [pc EXCEPT ![t] = "idle"]
    /\ UNCHANGED << conversation_history, now, req, prompt, reply, recorded, budget,
                    messages, speech_vars >>

Init == TextInit(1, MaxTurns) /\ SpeechInit(0)

Next ==
    \/ \E t \in DOMAIN pc, m \in Messages, h \in Hours : Submit(t, m, h)
    \/ \E t \in DOMAIN pc, o \in Outcomes, r \in Rolls : Respond(t, o, r)
    \/ \E t \in DOMAIN pc : Abandon(t)
    \/ Clear

Spec == Init /\ [][Next]_vars

InitHistory == TextInit(NTasks, MaxDeepTurns) /\ SpeechInit(0)

NextHistory ==
    \/ \E t \in DOMAIN pc, m \in DeepMessages : Submit(t, m, 9)
    \/ \E t \in DOMAIN pc, o \in DeepOutcomes, r \in DeepRolls : Respond(t, o, r)
    \/ \E t \in DOMAIN pc : Abandon(t)
    \/ Clear

SpecHistory == InitHistory /\ [][NextHistory]_vars
(***************************************************************************)
(* build_conversation_context as a function of the history and the prompt  *)
(***************************************************************************)
MaxCtxLen == 3

CtxExchanges == {[user |-> "hi", assistant |-> "Ok then."],
                 [user |-> "what time is it?", assistant |-> "Late."]}

Stamp(es, from) ==
    [i \in 1..Len(es) |-> [user |-> es[i].user, assistant |-> es[i].assistant,
                           timestamp |-> from + i]]

\* Histories the program can hold: up to MaxCtxLen exchanges, and the same
\* behind older ones that fill the list to its capacity.
CtxHistories ==
    LET short == UNION {[1..n -> CtxExchanges] : n \in 0..MaxCtxLen}
        older == [i \in 1..(MAX_HISTORY - MaxCtxLen) |->
                     [user |-> "hi", assistant |-> "Indeed, ok then."]]
    IN  {Stamp(es, 0) : es \in short}
        \cup {Stamp(older \o es, 0) : es \in [1..MaxCtxLen -> CtxExchanges]}

CtxPrompts == {"hi", "ok", enhance_prompt("what time is it?", 9), ""}

InitContext ==
    /\ conversation_history \in CtxHistories
    /\ recorded = conversation_history
    /\ now = Len(conversation_history)
    /\ pc = [t \in 1..1 |-> "idle"]
    /\ req = [t \in 1..1 |-> ""]
    /\ prompt = [t \in 1..1 |-> ""]
    /\ reply = NoReply
    /\ budget = 0
    /\ messages = <<>>
    /\ SpeechInit(0)

BuildContext(current_prompt) ==
    /\ messages' = build_conversation_context(conversation_history, current_prompt)
    /\ prompt' = [prompt EXCEPT ![1] = current_prompt]
    /\ UNCHANGED << conversation_history, now, pc, req, reply, recorded, budget,
                    speech_vars >>

NextContext == \E p \in CtxPrompts : BuildContext(p)

SpecContext == InitContext /\ [][NextContext]_vars

(***************************************************************************)
(* Speech service operations                                               *)
(***************************************************************************)
MaxVoiceTurns == 2

\* Which candidate paths exist or answer --help when the service probes them
Installations == {{}, {"kokoro"}, {"./models/kokoro/kokoro_tts.py", "python -m kokoro"}}

\* result["text"] of the ASR model for the audio received
Transcripts == {"", "  ", "hello", "Switch to chat mode", "please enable voice"}

SynthTexts == {"", "  ", "hello", "Hi there."}

VoiceOutcomes ==
    {LLMResponse(200, "content", "ok then"), LLMResponse(200, "content", ""),
     LLMResponse(500, "content", "boom"), LLMRaises("timeout")}

\* initialize() as far as its effect on the service goes: the ASR model loaded
\* and the TTS engine probed, or the raise of a failed model load.
initialize(load_ok, present) ==
    IF load_ok
    THEN [raised |-> FALSE, is_initialized |-> TRUE, kokoro_path |-> initialize_kokoro(present)]
    ELSE [raised |-> TRUE, is_initialized |-> FALSE, kokoro_path |-> kokoro_path]

\* Explicit startup
Initialize(load_ok, present) ==
    /\ ~is_initialized
    /\ vpc = "idle"
    /\ LET i == initialize(load_ok, present)
       IN  /\ is_initialized' = i.is_initialized
           /\ kokoro_path' = i.kokoro_path
    /\ UNCHANGED << text_vars, now, llm_history, synth, vpc, vprompt, vpending, vturn,
                    vresult, vbudget, probe_vars >>

SynthRecord(text, ko, fo) ==
    [text |-> text, path |-> kokoro_path, called |-> TRUE,
     result |-> synthesize_speech(text, "default", kokoro_path, ko, fo)]

\* synthesize_speech called on its own
SynthesizeCall(text, ko, fo) ==
    /\ vpc = "idle"
    /\ vbudget > 0
    /\ vbudget' = vbudget - 1
    /\ synth' = SynthRecord(text, ko, fo)
    /\ vturn' = NoTurn
    /\ vresult' = NoResult
    /\ UNCHANGED << text_vars, now, llm_history, is_initialized, kokoro_path, vpc, vprompt,
                    vpending, probe_vars >>

\* Mutant: the handler lets the exception through to the caller
speech_except_reraises(step) == [propagates |-> TRUE, pending |-> ""]

\* process_speech_to_speech, except Exception: the scripted apology is what
\* gets synthesized and returned
speech_except(step) == [propagates |-> FALSE, pending |-> error_msg]

\* The state a voice turn `turn` is left in when its step `step` raised
Handle(step, turn, trace) ==
    LET h == speech_except(step)
    IN  IF h.propagates
        THEN /\ vpc' = "idle"
             /\ vpending' = ""
             /\ vturn' = [turn EXCEPT !.trace = trace, !.failed = @ \cup {step},
                                      !.done = TRUE]
             /\ vresult' = [raised |-> TRUE, text |-> "", audio |-> EmptyBuffer,
                            spoken |-> ""]
        ELSE /\ vpc' = "synth"
             /\ vpending' = h.pending
             /\ vturn' = [turn EXCEPT !.trace = trace, !.failed = @ \cup {step},
                                      !.handling = TRUE]
             /\ vresult' = NoResult

(***************************************************************************)
(* process_speech_to_speech up to its first await after the transcription: *)
(* transcribe (initializing the service on first use), the empty-transcript*)
(* return, the mode-switch branch, the prompt enhancement.                 *)
(***************************************************************************)
VoiceTranscribe(asr, text, load_ok, present, enhance_ok) ==
    /\ vpc = "idle"
    /\ vbudget > 0
    /\ vbudget' = vbudget - 1
    /\ LET i == IF is_initialized
                THEN [raised |-> FALSE, is_initialized |-> TRUE, kokoro_path |-> kokoro_path]
                ELSE initialize(load_ok, present)
           t == IF i.raised THEN [raised |-> TRUE, text |-> "", tmp |-> {}]
                ELSE transcribe_audio(asr, text)
           heard == ~t.raised
           transcript == t.text
           turn == [NoTurn EXCEPT !.heard = IF heard THEN text ELSE "",
                                  !.transcript = transcript, !.tmp = t.tmp, !.began = now]
       IN  /\ is_initialized' = i.is_initialized
           /\ kokoro_path' = i.kokoro_path
           /\ IF ~heard
              THEN /\ Handle("transcription", turn, << "transcribe" >>)
                   /\ UNCHANGED vprompt
              ELSE IF empty_transcript(transcript)
              THEN /\ vpc' = "idle"
                   /\ vturn' = [turn EXCEPT !.trace = << "transcribe" >>, !.done = TRUE]
                   /\ vresult' = [raised |-> FALSE, text |-> "",
                                  audio |-> generate_silence(5), spoken |-> ""]
                   /\ UNCHANGED << vprompt, vpending >>
              ELSE IF detect_mode_switch(transcript) # None
              THEN /\ vpc' = "synth"
                   /\ vpending' = IF detect_mode_switch(transcript) = "chat"
                                  THEN chat_ack ELSE voice_ack
                   /\ vturn' = [turn EXCEPT !.trace = << "transcribe", "detect_mode_switch" >>]
                   /\ vresult' = NoResult
                   /\ UNCHANGED vprompt
              ELSE IF ~enhance_ok
              THEN /\ Handle("enhance", turn,
                             << "transcribe", "detect_mode_switch", "enhance_prompt" >>)
                   /\ UNCHANGED vprompt
              ELSE /\ vpc' = "llm"
                   /\ vprompt' = enhance_prompt(transcript, 9)
                   /\ vturn' = [turn EXCEPT !.trace = << "transcribe", "detect_mode_switch",
                                                        "enhance_prompt", "llm" >>]
                   /\ vresult' = NoResult
                   /\ UNCHANGED vpending
    /\ synth' = NoSynth
    /\ UNCHANGED << text_vars, now, llm_history, probe_vars >>

(***************************************************************************)
(* From the return or raise of llm_service.generate_response to the await  *)
(* on synthesize_speech: the persona filter, or the except clause.         *)
(***************************************************************************)
VoiceGenerate(outcome, rolls, filter_ok) ==
    /\ vpc = "llm"
    /\ LET g == generate_response(llm_history, vprompt, FALSE, outcome, << >>, now + 1)
       IN  /\ llm_history' = g.history
           /\ now' = IF g.history # llm_history THEN now + 1 ELSE now
           /\ IF g.raised
              THEN Handle("llm", vturn, vturn.trace)
              ELSE IF ~filter_ok
              THEN Handle("filter", vturn, Append(vturn.trace, "filter_response"))
              ELSE /\ vpc' = "synth"
                   /\ vpending' = filter_response(g.text, rolls)
                   /\ vturn' = [vturn EXCEPT !.trace = Append(@, "filter_response")]
                   /\ UNCHANGED vresult
    /\ UNCHANGED << text_vars, is_initialized, kokoro_path, synth, vprompt, vbudget,
                    probe_vars >>

(***************************************************************************)
(* The await on synthesize_speech and the return of the turn               *)
(***************************************************************************)
VoiceSynthesize(ko, fo) ==
    /\ vpc = "synth"
    /\ LET call == SynthRecord(vpending, ko, fo)
           r == call.result
           engine_failed == r.raised \/ (Len(r.calls) > 0 /\ r.calls[Len(r.calls)] = "silence")
           failed == IF engine_failed THEN vturn.failed \cup {"synthesis"} ELSE vturn.failed
           trace == Append(vturn.trace, "synthesize_speech")
       IN  /\ synth' = call
           /\ IF r.raised /\ ~vturn.handling /\ ~speech_except("synthesis").propagates
              THEN /\ vpc' = "synth"
                   /\ vpending' = speech_except("synthesis").pending
                   /\ vturn' = [vturn EXCEPT !.trace = trace, !.failed = failed,
                                             !.handling = TRUE]
                   /\ UNCHANGED vresult
              ELSE /\ vpc' = "idle"
                   /\ vpending' = ""
                   /\ vturn' = [vturn EXCEPT !.trace = trace, !.failed = failed,
                                             !.done = TRUE]
                   /\ vresult' = IF r.raised
                                 THEN [raised |-> TRUE, text |-> "", audio |-> EmptyBuffer,
                                       spoken |-> vpending]
                                 ELSE [raised |-> FALSE, text |-> vpending,
                                       audio |-> r.audio, spoken |-> vpending]
    /\ UNCHANGED << text_vars, now, llm_history, is_initialized, kokoro_path, vprompt,
                    vbudget, probe_vars >>

(***************************************************************************)
(* The engine subprocess started for the pending text never exits: both    *)
(* engines wait in `await process.communicate()` with no timeout and no    *)
(* kill, so the turn stays suspended there.                                *)
(***************************************************************************)
EngineHangs ==
    /\ vpc = "synth"
    /\ str_strip(vpending) # ""
    /\ vpc' = "communicate"
    /\ vturn' = [vturn EXCEPT !.trace = Append(@, "synthesize_speech")]
    /\ UNCHANGED << text_vars, now, llm_history, is_initialized, kokoro_path, synth,
                    vprompt, vpending, vresult, vbudget, probe_vars >>

(***************************************************************************)
(* The task running the voice turn is cancelled at its await (the client   *)
(* disconnected): CancelledError passes `except Exception`, the turn       *)
(* returns nothing and whatever it did before the await stays done.        *)
(***************************************************************************)
VoiceCancel ==
    /\ vpc \in {"llm", "synth", "communicate"}
    /\ vpc' = "idle"
    /\ vpending' = ""
    /\ vturn' = [vturn EXCEPT !.abandoned = TRUE]
    /\ vresult' = NoResult
    /\ UNCHANGED << text_vars, now, llm_history, is_initialized, kokoro_path, synth,
                    vprompt, vbudget, probe_vars >>

\* The model load and the engine probe happen on the first use only: once
\* the service is initialized one value stands for all of them
FirstUse(outcomes) ==
    IF is_initialized THEN {CHOOSE o \in outcomes : TRUE} ELSE outcomes

InitSpeech == TextInit(1, 0) /\ SpeechInit(MaxVoiceTurns)

NextSpeech ==
    \/ \E l \in BOOLEAN, p \in Installations : Initialize(l, p)
    \/ \E t \in SynthTexts, ko \in EngineOutcomes, fo \in EngineOutcomes :
          SynthesizeCall(t, ko, fo)
    \/ \E a \in AsrOutcomes, t \in Transcripts, l \in FirstUse(BOOLEAN),
          p \in FirstUse(Installations), e \in BOOLEAN : VoiceTranscribe(a, t, l, p, e)
    \/ \E o \in VoiceOutcomes, r \in Rolls, f \in BOOLEAN : VoiceGenerate(o, r, f)
    \/ \E ko \in EngineOutcomes, fo \in EngineOutcomes : VoiceSynthesize(ko, fo)
    \/ EngineHangs
    \/ VoiceCancel

SpecSpeech == InitSpeech /\ [][NextSpeech]_vars


(***************************************************************************)
(* detect_mode_switch as a function of the text                            *)
(***************************************************************************)
DetectPrefixes == {"", "please ", "OK, "}

DetectCores ==
    chat_phrases \cup voice_phrases \cup {"", "hello there", "Switch To Chat", "TALK MODE"}

DetectSuffixes == {"", " now ", " or Voice Mode", " and GO TO CHAT"}

DetectTexts ==
    {join(<< a, b, c >>) : a \in DetectPrefixes, b \in DetectCores, c \in DetectSuffixes}

InitDetect == TextInit(1, 0) /\ SpeechInit(0)

DetectModeSwitch(text) ==
    /\ mode_switch' = [text |-> text, called |-> TRUE, result |-> detect_mode_switch(text)]
    /\ UNCHANGED << text_vars, now, llm_history, is_initialized, kokoro_path, synth, vpc,
                    vprompt, vpending, vturn, vresult, vbudget, health, persona, gen, boot >>

NextDetect == \E t \in DetectTexts : DetectModeSwitch(t)

SpecDetect == InitDetect /\ [][NextDetect]_vars

(***************************************************************************)
(* LLMService.health_check as a function of the configured model and of    *)
(* what the model runtime answers                                          *)
(***************************************************************************)
MaxListing == 2

ConfiguredModels == {"llama3.2:3b", "mistral", "phi3"}

InstalledModels == {"llama3.2:3b", "llama3.2", "mistral"}

Listings == UNION {[1..n -> InstalledModels] : n \in 0..MaxListing}

HealthOutcomes ==
    {HealthRaises("client_error", "Cannot connect to host localhost:11434"),
     HealthRaises("exception", "")}
    \cup {HealthResponse(st, "listing", ns, "") : st \in {200, 404, 500}, ns \in Listings}
    \cup {HealthResponse(st, "nomodels", << >>, "") : st \in {200, 404, 500}}
    \cup {HealthResponse(st, "content_type", << >>, "0, message='Attempt to decode JSON'") :
              st \in {200, 404, 500}}
    \cup {HealthResponse(st, "malformed", << >>, "'name'") : st \in {200, 404, 500}}

InitHealth ==
    \E m \in ConfiguredModels : TextInit(1, 0) /\ ServicesInit(0, m) /\ ProbesInit

HealthCheck(o) ==
    /\ health' = [health EXCEPT !.called = TRUE, !.outcome = o,
                                !.report = health_check(health.model_name, o)]
    /\ UNCHANGED << text_vars, now, llm_history, is_initialized, kokoro_path, synth, vpc,
                    vprompt, vpending, vturn, vresult, vbudget, mode_switch, persona, gen,
                    boot >>

NextHealth == \E o \in HealthOutcomes : HealthCheck(o)

SpecHealth == InitHealth /\ [][NextHealth]_vars

(***************************************************************************)
(* The persona filter on its own: filter_response, and its two stages      *)
(* add_personality_flourishes and clean_formatting, applied to texts and   *)
(* to the values the random generator can produce                          *)
(***************************************************************************)
voice_vars ==
    << llm_history, is_initialized, kokoro_path, synth, vpc, vprompt, vpending, vturn,
       vresult, vbudget >>

\* Raw texts a model can answer with
PersonaTexts ==
    {"", "  ", "\n", " \t ", "hello world", "Paris is in France", "hi there!",
     "  The answer is 42  ", "what?", "NASA",
     "The Eiffel Tower is in Paris, and Gustave Eiffel built it"}

\* Texts handed to clean_formatting
CleanTexts ==
    {"hello world", " hello", "  ", "a", "Z", "ok: ", "Really?  yes .no", "what?", "done:",
     "a !", "hi there!", "x.y", "\n tab", " .a", "wait...", "Indeed, hello"}

PersonaRolls ==
    {Roll(skip, start, startc, end, endc, err) :
        skip \in BOOLEAN, start \in BOOLEAN, startc \in {1, 5}, end \in BOOLEAN,
        endc \in {2, 5}, err \in DOMAIN get_error_messages}

\* A run takes one text and one set of rolls and applies the functions to them
InitPersona ==
    /\ TextInit(1, 0)
    /\ ServicesInit(0, OLLAMA_MODEL)
    /\ gen = NoGen
    /\ boot = NoBoot
    /\ \E x \in PersonaTexts \cup CleanTexts, r \in PersonaRolls :
          persona = [op |-> "none", input |-> x, rolls |-> r, output |-> ""]

FilterResponse ==
    /\ persona' = [persona EXCEPT !.op = "filter",
                                  !.output = filter_response(persona.input, persona.rolls)]
    /\ UNCHANGED << text_vars, now, voice_vars, mode_switch, health, gen, boot >>

AddPersonalityFlourishes ==
    /\ persona' = [persona EXCEPT
                      !.op = "flourish",
                      !.output = add_personality_flourishes(persona.input, persona.rolls)]
    /\ UNCHANGED << text_vars, now, voice_vars, mode_switch, health, gen, boot >>

CleanFormatting ==
    /\ persona' = [persona EXCEPT !.op = "clean",
                                  !.output = clean_formatting(persona.input)]
    /\ UNCHANGED << text_vars, now, voice_vars, mode_switch, health, gen, boot >>

NextPersona == FilterResponse \/ AddPersonalityFlourishes \/ CleanFormatting

SpecPersona == InitPersona /\ [][NextPersona]_vars

(***************************************************************************)
(* LLMService._handle_streaming_response on its own: a run takes one       *)
(* streamed body and reads it                                              *)
(***************************************************************************)
MaxChunks == 3

StreamChunks ==
    {Chunk("content", " Hel", FALSE), Chunk("content", "lo ", FALSE),
     Chunk("content", "!", TRUE), Chunk("nomessage", "", FALSE),
     Chunk("nomessage", "", TRUE), Chunk("empty", "", FALSE),
     Chunk("invalid_json", "", FALSE), Chunk("bad_utf8", "", FALSE),
     Chunk("not_object", "", FALSE)}

StreamBodies == UNION {[1..n -> StreamChunks] : n \in 0..MaxChunks}

InitStream ==
    /\ TextInit(1, 0)
    /\ ServicesInit(0, OLLAMA_MODEL)
    /\ persona = NoPersona
    /\ boot = NoBoot
    /\ \E body \in StreamBodies :
          gen = [NoGen EXCEPT !.stream = TRUE, !.outcome = LLMResponse(200, "stream", ""),
                              !.chunks = body]

HandleStreamingResponse ==
    /\ LET s == handle_streaming_response(gen.chunks)
       IN  gen' = [gen EXCEPT !.called = TRUE, !.raised = s.raised, !.text = s.text,
                              !.consumed = s.consumed]
    /\ UNCHANGED << text_vars, now, voice_vars, mode_switch, health, persona, boot >>

NextStream == HandleStreamingResponse

SpecStream == InitStream /\ [][NextStream]_vars

(***************************************************************************)
(* LLMService.generate_response on its own, streamed and not, against      *)
(* every answer of the model runtime                                       *)
(***************************************************************************)
MaxGatewayCalls == 3

GatewayPrompts == {"hello", "Current time context: 9:00\n\nUser query: what time is it?"}

GatewayOutcomes ==
    {LLMResponse(200, "content", " ok then "), LLMResponse(200, "content", ""),
     LLMResponse(200, "nomessage", ""), LLMResponse(200, "malformed", ""),
     LLMResponse(404, "content", "model not found"), LLMRaises("timeout"),
     LLMRaises("client_error")}

\* Answers to a streamed call: the body of a 200 answer arrives as chunks
StreamOutcomes ==
    {LLMResponse(200, "stream", ""), LLMResponse(404, "content", "model not found"),
     LLMRaises("timeout"), LLMRaises("client_error")}

GatewayBodies ==
    {<< >>,
     << Chunk("content", " Hel", FALSE), Chunk("invalid_json", "", FALSE),
        Chunk("content", "lo ", TRUE) >>,
     << Chunk("content", "Hi", FALSE), Chunk("bad_utf8", "", FALSE) >>}

InitGateway == TextInit(1, 0) /\ SpeechInit(0)

\* A successful non-streamed call is stamped with the clock; the explored runs
\* stop recording at MaxGatewayCalls exchanges.
GenerateResponse(prompt_text, stream, outcome, chunks) ==
    /\ now < MaxGatewayCalls
    /\ LET g == generate_response(llm_history, prompt_text, stream, outcome, chunks,
                                  now + 1)
       IN  /\ llm_history' = g.history
           /\ now' = IF g.history # llm_history THEN now + 1 ELSE now
           /\ gen' = [called |-> TRUE, stream |-> stream, prompt |-> prompt_text,
                      outcome |-> outcome, chunks |-> chunks, raised |-> g.raised,
                      text |-> g.text,
                      consumed |-> IF stream /\ outcome.kind = "response"
                                      /\ outcome.status = 200
                                   THEN handle_streaming_response(chunks).consumed
                                   ELSE 0]
    /\ UNCHANGED << text_vars, is_initialized, kokoro_path, synth, vpc, vprompt, vpending,
                    vturn, vresult, vbudget, mode_switch, health, persona, boot >>

NextGateway ==
    \/ \E p \in GatewayPrompts, o \in GatewayOutcomes : GenerateResponse(p, FALSE, o, << >>)
    \/ \E p \in GatewayPrompts, o \in StreamOutcomes, b \in GatewayBodies :
          GenerateResponse(p, TRUE, o, b)

SpecGateway == InitGateway /\ [][NextGateway]_vars

(***************************************************************************)
(* SpeechService.initialize under concurrent first use. The coroutine      *)
(* tests is_initialized, loads the ASR model (a blocking call), probes the *)
(* TTS engine and sets is_initialized last. It is suspended only while a   *)
(* probe subprocess runs: a candidate .py file that exists is accepted     *)
(* without a subprocess, and a command that does not exist fails to start  *)
(* without suspending the coroutine.                                       *)
(***************************************************************************)
NBootTasks == 3

MaxBootCalls == 4

BootInstallations ==
    Installations \cup {{"kokoro", "./models/kokoro/kokoro_tts.py"},
                        {"./kokoro/kokoro_tts.py", "kokoro"}}

\* _initialize_kokoro awaits a subprocess that was started
probe_suspends(present) ==
    /\ initialize_kokoro(present) # None
    /\ ~str_endswith(initialize_kokoro(present), ".py")

InitBoot ==
    /\ TextInit(1, 0)
    /\ ServicesInit(0, OLLAMA_MODEL)
    /\ persona = NoPersona
    /\ gen = NoGen
    /\ \E present \in BootInstallations :
          boot = [at |-> [t \in 1..NBootTasks |-> "idle"], present |-> present,
                  loads |-> 0, probes |-> 0, calls |-> MaxBootCalls]

\* initialize(), called at startup or by transcribe_audio on an uninitialized
\* service, up to its return, its raise or its suspension in the probe
InitializeBegin(t, load_ok) ==
    /\ boot.at[t] = "idle"
    /\ boot.calls > 0
    /\ IF is_initialized \/ ~load_ok
       THEN /\ boot' = [boot EXCEPT !.calls = @ - 1]
            /\ UNCHANGED << is_initialized, kokoro_path >>
       ELSE IF probe_suspends(boot.present)
       THEN /\ boot' = [boot EXCEPT !.calls = @ - 1, !.loads = @ + 1,
                                    !.at[t] = "probing"]
            /\ UNCHANGED << is_initialized, kokoro_path >>
       ELSE /\ boot' = [boot EXCEPT !.calls = @ - 1, !.loads = @ + 1, !.probes = @ + 1]
            /\ kokoro_path' = initialize_kokoro(boot.present)
            /\ is_initialized' = TRUE
    /\ UNCHANGED << text_vars, now, llm_history, synth, vpc, vprompt, vpending, vturn,
                    vresult, vbudget, mode_switch, health, persona, gen >>

\* the probe subprocess exited: the engine is selected and the flag set
InitializeResume(t) ==
    /\ boot.at[t] = "probing"
    /\ boot' = [boot EXCEPT !.probes = @ + 1, !.at[t] = "idle"]
    /\ kokoro_path' = initialize_kokoro(boot.present)
    /\ is_initialized' = TRUE
    /\ UNCHANGED << text_vars, now, llm_history, synth, vpc, vprompt, vpending, vturn,
                    vresult, vbudget, mode_switch, health, persona, gen >>

NextBoot ==
    \/ \E t \in 1..NBootTasks, l \in BOOLEAN : InitializeBegin(t, l)
    \/ \E t \in 1..NBootTasks : InitializeResume(t)

SpecBoot == InitBoot /\ [][NextBoot]_vars

(***************************************************************************)
(* The text turn against messages that name a capability, among them a     *)
(* message that repeats a scripted answer word for word                    *)
(***************************************************************************)
GateMessages ==
    {"hi", "Help me", "Use your VOICE", "search the web", "what features?",
     handle_capability_query("calendar"), handle_capability_query("document")}

InitGate == TextInit(1, MaxTurns) /\ SpeechInit(0)

NextGate ==
    \/ \E t \in DOMAIN pc, m \in GateMessages : Submit(t, m, 9)
    \/ \E t \in DOMAIN pc, o \in Outcomes, r \in DeepRolls : Respond(t, o, r)
    \/ \E t \in DOMAIN pc : Abandon(t)
    \/ Clear

SpecGate == InitGate /\ [][NextGate]_vars

(***************************************************************************)
(* Properties                                                              *)
(***************************************************************************)

\* C1: in every reachable state, whatever the interleaving of the record and
\* clear operations of concurrent turns, the history holds at most MAX_HISTORY
\* (10) exchanges.
HistoryBounded == Len(conversation_history) <= MAX_HISTORY

\* C1 witness: the history is full after more than MAX_HISTORY records while
\* another turn is still in flight.
HistoryBoundedWitness ==
    /\ Len(conversation_history) = MAX_HISTORY
    /\ Len(recorded) > MAX_HISTORY
    /\ \E t \in DOMAIN pc : pc[t] = "awaiting"

\* After more than MAX_HISTORY records with no clear in between, the history
\* is exactly the last MAX_HISTORY exchanges recorded, in their order.
LastHKept ==
    Len(recorded) > MAX_HISTORY =>
        /\ Len(conversation_history) = MAX_HISTORY
        /\ \A i \in 1..MAX_HISTORY :
              conversation_history[i] = recorded[Len(recorded) - MAX_HISTORY + i]

\* A record into a full history drops its first exchange only and puts the new
\* one last.
EvictsOnlyOldest ==
    (Len(conversation_history) = MAX_HISTORY /\ Len(recorded') = Len(recorded) + 1) =>
        /\ Len(conversation_history') = MAX_HISTORY
        /\ \A i \in 1..(MAX_HISTORY - 1) :
              conversation_history'[i] = conversation_history[i + 1]
        /\ conversation_history'[MAX_HISTORY] = recorded'[Len(recorded')]

\* C2: for every sequence of N > H records with no clear in between, the
\* history has exactly H exchanges, precisely the last H recorded in their
\* original order; a record into a history of exactly H evicts only the oldest.
LastHRecordedKept == [] LastHKept /\ [][EvictsOnlyOldest]_vars

\* C2 witness: two evictions have happened since the last clear.
LastHRecordedKeptWitness ==
    /\ Len(recorded) = MAX_HISTORY + 2
    /\ conversation_history[1].timestamp = recorded[3].timestamp

\* C3: build_context returns the system prompt first, then each stored
\* exchange oldest first as a user message followed by its assistant message,
\* then the current user message last (2*|history|+2 messages), and leaves the
\* history unchanged.
ContextShape ==
    messages # <<>> =>
        LET n == Len(conversation_history)
        IN  /\ Len(messages) = 2 * n + 2
            /\ messages[1] = [role |-> "system", content |-> get_system_prompt]
            /\ \A i \in 1..n :
                  /\ messages[2 * i] =
                        [role |-> "user", content |-> conversation_history[i].user]
                  /\ messages[2 * i + 1] =
                        [role |-> "assistant",
                         content |-> conversation_history[i].assistant]
            /\ messages[2 * n + 2] = [role |-> "user", content |-> prompt[1]]
            /\ conversation_history = recorded

\* C3 witness: a context built over a full history whose exchanges differ.
ContextShapeWitness ==
    /\ messages # <<>>
    /\ Len(conversation_history) = MAX_HISTORY
    /\ conversation_history[MAX_HISTORY - 1].user # conversation_history[MAX_HISTORY].user
    /\ prompt[1] # ""

HasTimeoutMarker(text) == str_in("Request timed out", text)

HasConnectMarker(text) == str_in("Cannot connect to Ollama", text)

HasTechnicalMarker(text) == str_in("(Technical details: ", text)

\* C4: when the LLM call of a text turn times out, the turn yields a non-empty
\* message that opens with an entry of the error-message pool and carries the
\* timeout marker (and no other marker), and no exchange is recorded.
TimeoutTurn ==
    [][\A t \in DOMAIN pc :
          (pc[t] = "awaiting" /\ pc'[t] = "idle" /\ reply'.cause = "timeout") =>
              /\ reply'.text # ""
              /\ \E i \in DOMAIN get_error_messages :
                    str_startswith(reply'.text, get_error_messages[i])
              /\ HasTimeoutMarker(reply'.text)
              /\ ~HasConnectMarker(reply'.text)
              /\ ~HasTechnicalMarker(reply'.text)
              /\ conversation_history' = conversation_history
              /\ recorded' = recorded]_vars

\* C4 witness: a turn timed out while the history held an exchange.
TimeoutTurnWitness ==
    /\ reply.cause = "timeout"
    /\ reply.called
    /\ conversation_history # <<>>

\* C5: a timeout, a connection failure and any other LLM failure are each
\* surfaced with their own technical suffix, and the suffix always matches the
\* failure that occurred.
FailureClassMatches ==
    (reply.called /\ reply.code # 200) =>
        /\ HasTimeoutMarker(reply.text) <=> reply.cause = "timeout"
        /\ HasConnectMarker(reply.text) <=> reply.cause = "connect"
        /\ HasTechnicalMarker(reply.text) <=> reply.cause \in {"protocol", "error"}
        /\ reply.cause \in {"timeout", "connect", "protocol", "error"}

\* C5 witness: a connection failure was surfaced.
FailureClassMatchesWitness ==
    /\ reply.called
    /\ reply.cause = "connect"
    /\ HasConnectMarker(reply.text)

NonBlank(text) == \E i \in 1..Len(text) : ~IsSpace(Char(text, i))

AudioBuffers(text) ==
    {EngineAudio("kokoro", text), EngineAudio("espeak", text), EmptyBuffer,
     [kind |-> "silence", samples |-> 16000],
     [kind |-> "silence", samples |-> 1600 * Len(text)]}

\* C6: for every text with a non-whitespace character and every outcome of
\* the engines, synthesize returns an audio buffer and never raises.
SynthesizeNeverRaises ==
    (synth.called /\ NonBlank(synth.text)) =>
        /\ ~synth.result.raised
        /\ synth.result.audio \in AudioBuffers(synth.text)

\* C6 witness: no engine was discovered and the system fallback engine failed.
SynthesizeNeverRaisesWitness ==
    /\ synth.called
    /\ NonBlank(synth.text)
    /\ synth.path = None
    /\ synth.result.calls = << "espeak", "silence" >>

\* C7 as stated: when the primary engine was tried and failed, the system
\* fallback engine is attempted before silence is returned.
PrimaryFailureFallsThrough ==
    (synth.called /\ synth.path # None
     /\ synth.result.audio.kind = "silence") =>
        \E i, j \in DOMAIN synth.result.calls :
            /\ i < j
            /\ synth.result.calls[i] = "espeak"
            /\ synth.result.calls[j] = "silence"

\* C7 amended: one engine is tried per call, the discovered primary engine or,
\* when none was discovered, the system fallback engine; a failure of the
\* engine tried goes straight to the silence generator (1.0 s after the primary
\* engine, 0.1 s per character after the fallback engine).
OneEnginePerCall ==
    (synth.called /\ NonBlank(synth.text)) =>
        IF synth.path # None
        THEN /\ synth.result.calls \in {<< "kokoro" >>, << "kokoro", "silence" >>}
             /\ synth.result.audio.kind = "silence" =>
                   /\ synth.result.calls = << "kokoro", "silence" >>
                   /\ synth.result.audio.samples = 16000
        ELSE /\ synth.result.calls \in {<< "espeak" >>, << "espeak", "silence" >>}
             /\ synth.result.audio.kind = "silence" =>
                   /\ synth.result.calls = << "espeak", "silence" >>
                   /\ synth.result.audio.samples = 1600 * Len(synth.text)

\* C7 witness: the discovered primary engine failed and silence came back.
OneEnginePerCallWitness ==
    /\ synth.called
    /\ synth.path # None
    /\ synth.result.calls = << "kokoro", "silence" >>

\* C8: for an empty or whitespace-only text synthesize returns an empty buffer
\* and invokes neither engine nor the silence generator.
BlankTextNoEngine ==
    (synth.called /\ ~NonBlank(synth.text)) =>
        /\ synth.result.audio = EmptyBuffer
        /\ synth.result.calls = << >>
        /\ ~synth.result.raised

\* C8 witness: a whitespace-only text while a primary engine is discovered.
BlankTextNoEngineWitness ==
    /\ synth.called
    /\ synth.text = "  "
    /\ synth.path # None

Apology == "I'm sorry, I encountered an error processing your request."

\* C9 as stated: whichever step fails, synthesis included, the turn returns the
\* scripted apology with audio synthesized for it.
ApologyOnAnyFailure ==
    (vturn.done /\ vturn.failed # {}) =>
        /\ ~vresult.raised
        /\ vresult.text = Apology
        /\ vresult.spoken = Apology

\* C9 amended: speech_to_speech never propagates an exception; when the
\* transcription, the prompt enhancement, the LLM generation or the persona
\* filter fails it returns the scripted apology with audio synthesized for it;
\* a failing synthesis alone leaves the turn's own text, returned with silence.
VoiceTurnNeverRaises ==
    vturn.done =>
        /\ ~vresult.raised
        /\ (vturn.failed \cap {"transcription", "enhance", "llm", "filter"} # {}) =>
              /\ vresult.text = Apology
              /\ vresult.spoken = Apology
              /\ vresult.audio \in AudioBuffers(Apology)
        /\ (vturn.failed = {"synthesis"}) =>
              /\ vresult.text # Apology
              /\ vresult.spoken = vresult.text
              /\ vresult.audio.kind = "silence"

\* C9 witness: the LLM generation failed and so did the engine speaking the apology.
VoiceTurnNeverRaisesWitness ==
    /\ vturn.done
    /\ vturn.failed = {"llm", "synthesis"}
    /\ vresult.text = Apology

MatchesSwitchPhrase(text) ==
    \E ph \in chat_phrases \cup voice_phrases : str_in(ph, str_lower(text))

InTrace(step) == \E i \in DOMAIN vturn.trace : vturn.trace[i] = step

ModeSwitchSkipsLLM ==
    MatchesSwitchPhrase(vturn.transcript) =>
        /\ ~InTrace("llm")
        /\ ~InTrace("enhance_prompt")
        /\ vturn.done =>
              /\ ~vresult.raised
              /\ vresult.text \in
                    {"Switching to chat mode. You can now type your messages.",
                     "Voice mode is already active."}
              /\ vresult.spoken = vresult.text
              /\ vresult.audio \in AudioBuffers(vresult.text)

ModeSwitchRecordsNothing ==
    MatchesSwitchPhrase(vturn'.transcript) => llm_history' = llm_history

\* C10: in a voice turn whose transcript matches a mode-switch phrase the LLM
\* gateway is never called and no exchange is recorded; the turn returns a
\* scripted acknowledgement and the audio synthesized for that text.
ModeSwitchTurn == [] ModeSwitchSkipsLLM /\ [][ModeSwitchRecordsNothing]_vars

\* C10 witness: a switch to chat acknowledged after an earlier turn had
\* recorded an exchange.
ModeSwitchTurnWitness ==
    /\ vturn.done
    /\ vturn.transcript = "Switch to chat mode"
    /\ vresult.text = "Switching to chat mode. You can now type your messages."
    /\ llm_history # << >>

EmptyTranscriptReturn ==
    (vturn.trace # << >> /\ vturn.failed = {} /\ ~NonBlank(vturn.heard)) =>
        /\ vturn.done
        /\ vpc = "idle"
        /\ vturn.trace = << "transcribe" >>
        /\ ~synth.called
        /\ vresult = [raised |-> FALSE, text |-> "",
                      audio |-> [kind |-> "silence", samples |-> 8000], spoken |-> ""]

EmptyTranscriptRecordsNothing ==
    (vturn'.trace # << >> /\ vturn'.failed = {} /\ ~NonBlank(vturn'.heard)) =>
        llm_history' = llm_history

\* C11: a voice turn whose transcript is empty or whitespace-only returns empty
\* text with half a second of silence; the mode-switch detection, the LLM
\* gateway and the TTS engines are not called and no exchange is recorded.
EmptyTranscriptTurn == [] EmptyTranscriptReturn /\ [][EmptyTranscriptRecordsNothing]_vars

\* C11 witness: a whitespace-only transcript heard after an earlier turn had
\* recorded an exchange, with a primary engine discovered.
EmptyTranscriptTurnWitness ==
    /\ vturn.done
    /\ vturn.heard = "  "
    /\ vresult.audio.kind = "silence"
    /\ llm_history # << >>
    /\ kokoro_path # None

\* The phrase occurs in the text, letter case apart
Occurs(phrase, text) ==
    \E i \in 0..(Len(text) - Len(phrase)) :
        \A k \in 1..Len(phrase) : LowerChar(Char(text, i + k)) = Char(phrase, k)

\* C12: detect_mode_switch returns Chat when the lower-cased text contains a
\* phrase of the chat set, otherwise Voice when it contains a phrase of the
\* voice set, otherwise none; a text with phrases of both sets returns Chat.
DetectChatFirst ==
    mode_switch.called =>
        LET text == mode_switch.text
            chat == \E ph \in chat_phrases : Occurs(ph, text)
            voice == \E ph \in voice_phrases : Occurs(ph, text)
        IN  /\ chat => mode_switch.result = "chat"
            /\ (~chat /\ voice) => mode_switch.result = "voice"
            /\ (~chat /\ ~voice) => mode_switch.result = "None"
            /\ text = "switch to chat" => mode_switch.result = "chat"
            /\ text = "please enable voice" => mode_switch.result = "voice"
            /\ text = "hello there" => mode_switch.result = "None"

\* C12 witness: a text that names voice mode first and chat after it, in
\* capitals, and is classified Chat.
DetectChatFirstWitness ==
    /\ mode_switch.called
    /\ mode_switch.text = "please voice mode and GO TO CHAT"
    /\ mode_switch.result = "chat"

AsksChat(text) == \E ph \in chat_phrases : Occurs(ph, text)

AsksVoice(text) == ~AsksChat(text) /\ \E ph \in voice_phrases : Occurs(ph, text)

\* The last finished turn told the user that the session switched to Chat
SwitchedToChat ==
    /\ vturn.done
    /\ vresult.text = "Switching to chat mode. You can now type your messages."

\* The turn now starting is answered as a session in Voice mode answers
AnsweredAsVoice == vpending' = "Voice mode is already active."

\* C13: the session is in exactly one mode and the mode changes only on a
\* recognised switch: once a Chat switch has been processed the session is in
\* Chat and stays there, so the turn that follows is not answered as a session
\* in Voice mode answers a Voice request ("already active").
ChatModePersists == [][SwitchedToChat => ~AnsweredAsVoice]_vars

VoiceSwitchInformational ==
    (vturn.trace # << >> /\ AsksVoice(vturn.transcript)) =>
        /\ ~InTrace("llm")
        /\ ~InTrace("enhance_prompt")
        /\ vturn.done =>
              /\ ~vresult.raised
              /\ vresult.text = "Voice mode is already active."

\* A turn that asks for a switch alters no field of an initialized service
\* and none of the gateway
SwitchKeepsSession ==
    (is_initialized /\ vturn'.trace # << >>
     /\ (AsksChat(vturn'.transcript) \/ AsksVoice(vturn'.transcript))) =>
        /\ is_initialized' = is_initialized
        /\ kokoro_path' = kokoro_path
        /\ llm_history' = llm_history

\* A Chat request right after the session switched to Chat is acknowledged
\* the same way again
ChatSwitchRepeats ==
    (SwitchedToChat /\ vturn'.trace # << >> /\ ~vturn'.done /\ AsksChat(vturn'.transcript)) =>
        vpending' = "Switching to chat mode. You can now type your messages."

\* C14: a Voice switch detected in a voice session yields the "already active"
\* answer instead of an LLM turn and changes nothing of the session; a Chat
\* switch detected after the session switched to Chat changes nothing either.
SwitchInSameMode ==
    /\ [] VoiceSwitchInformational
    /\ [][SwitchKeepsSession /\ ChatSwitchRepeats]_vars

\* C14 witness: "already active" returned after an earlier turn recorded an
\* exchange.
SwitchInSameModeWitness ==
    /\ vturn.done
    /\ vturn.transcript = "please enable voice"
    /\ vresult.text = "Voice mode is already active."
    /\ llm_history # << >>

\* C15: no temporary output file of a synthesize call exists once the call
\* has returned, whichever way the engine ended.
SynthesizeLeavesNoFile == synth.called => synth.result.tmp = {}

\* C16: the file transcribe stages the audio in does not exist once transcribe
\* has returned or raised, a failed write and a failed decode included.
TranscribeLeavesNoFile == vturn.trace # << >> => vturn.tmp = {}

\* C17: the wait of a synthesize call is bounded: as long as a voice turn
\* waits for the call, also on an engine subprocess that never exits, the
\* service has a step of its own that makes the call return.
SynthesizeWaitBounded ==
    vpc \in {"synth", "communicate"} =>
        ENABLED (\E ko \in EngineOutcomes, fo \in EngineOutcomes : VoiceSynthesize(ko, fo))

\* C19: a turn abandoned while its LLM or TTS call is in flight has recorded
\* nothing: the history holds no exchange recorded since that turn began.
AbandonedRecordsNothing ==
    vturn.abandoned =>
        \A i \in DOMAIN llm_history : llm_history[i].timestamp <= vturn.began

\* The history is what the records since the last clear leave when taken one
\* after the other in the order the turns completed, each exchange once
HistoryIsSerial ==
    /\ Len(conversation_history) = (IF Len(recorded) > 10 THEN 10 ELSE Len(recorded))
    /\ \A i \in DOMAIN conversation_history :
          conversation_history[i] =
              recorded[Len(recorded) - Len(conversation_history) + i]
    /\ \A i, j \in DOMAIN recorded : i < j => recorded[i].timestamp < recorded[j].timestamp

\* A step changes the history as one whole record of the turn that completes
\* or as one whole clear
RecordOrClearWhole ==
    \/ conversation_history' = conversation_history
    \/ /\ conversation_history' = << >>
       /\ \A t \in DOMAIN pc : pc'[t] = pc[t]
    \/ \E t \in DOMAIN pc :
          /\ pc[t] = "awaiting" /\ pc'[t] = "idle"
          /\ reply'.task = t /\ reply'.code = 200
          /\ Len(conversation_history') > 0
          /\ LET newest == conversation_history'[Len(conversation_history')]
                 kept == Len(conversation_history') - 1
             IN  /\ newest.user = req[t]
                 /\ newest.assistant = reply'.text
                 /\ \A i \in 1..kept :
                       conversation_history'[i] =
                           conversation_history[Len(conversation_history) - kept + i]
                 /\ kept = (IF Len(conversation_history) >= 10 THEN 9
                            ELSE Len(conversation_history))

\* C18: with several text turns and clear requests in flight on the one
\* history, records and clears take effect one at a time: no exchange of a
\* completed turn is lost or duplicated and the history is always one that
\* the records and clears produce in the order they completed.
RecordClearSerialized == [] HistoryIsSerial /\ [][RecordOrClearWhole]_vars

\* C18 witness: the history was cleared after earlier records while every
\* task has a turn in flight.
RecordClearSerializedWitness ==
    /\ \A t \in DOMAIN pc : pc[t] = "awaiting"
    /\ conversation_history = << >>
    /\ now >= 2

IsConnectionFailure(report) ==
    \/ report = "Ollama server not responding"
    \/ str_startswith(report, "Connection error: ")

IsModelMissing(report, model_name, names) ==
    /\ str_startswith(report, "Model ")
    /\ str_in(model_name \o " not found", report)
    /\ \A i \in DOMAIN names : str_in(names[i], report)

Listed(model_name, names) == \E i \in DOMAIN names : names[i] = model_name

\* C20 as stated: health() reports a connection failure whenever the runtime
\* cannot be reached or does not answer the listing successfully, whatever the
\* configured model; otherwise model-missing, naming the configured model and
\* the available ones, when the name is not listed; otherwise healthy.
HealthThreeWay ==
    health.called =>
        LET o == health.outcome
            answered == o.kind = "response" /\ o.status = 200
                        /\ o.body \in {"listing", "nomodels"}
        IN  IF ~answered THEN IsConnectionFailure(health.report)
            ELSE IF ~Listed(health.model_name, o.names)
            THEN IsModelMissing(health.report, health.model_name, o.names)
            ELSE health.report = "healthy"

\* C20 amended: a connection failure is reported when the request or the
\* reading of the listing fails with a client error or the listing answers
\* with a status other than 200, whatever the configured model; a generic
\* error with the exception's detail when anything else raises; otherwise
\* model-missing when the configured name is not listed; otherwise healthy.
HealthFourWay ==
    health.called =>
        LET o == health.outcome
        IN  IF o.kind = "client_error" \/ (o.kind = "response" /\ o.status # 200)
               \/ (o.kind = "response" /\ o.body = "content_type")
            THEN IsConnectionFailure(health.report)
            ELSE IF o.kind = "exception" \/ o.body = "malformed"
            THEN /\ str_startswith(health.report, "Error: ")
                 /\ str_endswith(health.report, o.detail)
                 /\ ~IsConnectionFailure(health.report)
            ELSE IF ~Listed(health.model_name, o.names)
            THEN IsModelMissing(health.report, health.model_name, o.names)
            ELSE health.report = "healthy"

\* C20 witness: the runtime answers 500 although its listing names the
\* configured model.
HealthFourWayWitness ==
    /\ health.called
    /\ health.outcome.status = 500
    /\ Listed(health.model_name, health.outcome.names)
    /\ health.report = "Ollama server not responding"

\* C21: a text turn whose message is empty or whitespace-only is a no-op: the
\* LLM gateway is not called for it and no exchange of it is recorded.
BlankMessageNoOp ==
    /\ \A t \in DOMAIN pc : pc[t] = "awaiting" => NonBlank(req[t])
    /\ \A i \in DOMAIN recorded : NonBlank(recorded[i].user)
    /\ \A i \in DOMAIN conversation_history : NonBlank(conversation_history[i].user)

\* C22: for every empty or whitespace-only raw text, filter_response returns
\* a non-empty entry of the error-message pool, exactly as the pool holds it:
\* no flourish is added and no formatting is applied.
BlankFilterGivesPoolEntry ==
    (persona.op = "filter" /\ ~NonBlank(persona.input)) =>
        /\ persona.output # ""
        /\ \E i \in DOMAIN get_error_messages : persona.output = get_error_messages[i]
        /\ persona.output = get_error_messages[persona.rolls.err]

\* C22 witness: a whitespace-only text was filtered while the rolls asked for
\* a starting flourish.
BlankFilterGivesPoolEntryWitness ==
    /\ persona.op = "filter"
    /\ persona.input = " \t "
    /\ ~persona.rolls.skip
    /\ persona.rolls.start
    /\ persona.output = get_error_messages[4]

\* add_personality_flourishes puts a starting flourish in front of the text
StartFlourishApplied ==
    /\ persona.op = "flourish"
    /\ persona.input # ""
    /\ ~persona.rolls.skip
    /\ persona.rolls.start
    /\ ~ \E g \in greeting_prefixes : str_startswith(str_lower(persona.input), g)

\* C25: when a starting flourish is applied, only the first letter of the
\* original text is lower-cased before the flourish is prepended: every other
\* character of the original text appears unchanged, in order, after the
\* flourish.
StartFlourishLowersFirstOnly ==
    StartFlourishApplied =>
        LET f == start_flourishes[persona.rolls.startc]
            x == persona.input
        IN  /\ str_startswith(persona.output, f)
            /\ SubSeq(persona.output, Len(f) + 1, Len(f) + Len(x))
                   = LowerChar(Char(x, 1)) \o SubSeq(x, 2, Len(x))

CountChar(text, c) == Cardinality({i \in 1..Len(text) : Char(text, i) = c})

EndsInMark(text) == \E p \in {".", "!", "?", ":"} : str_endswith(text, p)

\* the part of clean_formatting's contract that concerns the end of the text
CleanFormattingEnd ==
    /\ persona.output # ""
    /\ EndsInMark(persona.output)
    /\ CountChar(persona.output, ".")
           = CountChar(persona.input, ".") + (IF EndsInMark(persona.input) THEN 0 ELSE 1)
    /\ persona.input = "hello world" => persona.output = "Hello world."

Decodable(chunk) == chunk.kind \in {"content", "nomessage"}

\* position of the first chunk tagged done, or the length of the body
FirstDone(chunks) ==
    LET tagged == {i \in DOMAIN chunks : Decodable(chunks[i]) /\ chunks[i].done}
    IN  IF tagged = {} THEN Len(chunks)
        ELSE CHOOSE i \in tagged : \A j \in tagged : i <= j

\* the content of the decodable chunks among the first n, in arrival order
ContentUpTo(chunks, n) ==
    join([i \in 1..n |-> IF chunks[i].kind = "content" THEN chunks[i].content ELSE ""])

\* C23: for a streamed response the returned text is the concatenation, in
\* arrival order, of the content of every decodable chunk up to and including
\* the first chunk tagged done, stripped of surrounding whitespace; an
\* undecodable chunk contributes nothing and never aborts the stream, and no
\* chunk after the first done chunk is consumed.
StreamConcatenatesDecodable ==
    (gen.called /\ gen.stream /\ gen.outcome = LLMResponse(200, "stream", "")) =>
        /\ ~gen.raised
        /\ gen.text = str_strip(ContentUpTo(gen.chunks, FirstDone(gen.chunks)))
        /\ gen.consumed = FirstDone(gen.chunks)

\* what the model runtime answered as message.content of a non-streamed call
ModelContent(outcome) == IF outcome.body = "content" THEN outcome.content ELSE ""

\* the call was answered with status 200 and, when not streamed, a body that
\* decodes
Succeeded(call) ==
    /\ call.outcome.kind = "response"
    /\ call.outcome.status = 200
    /\ call.stream \/ call.outcome.body # "malformed"

\* C29: generate_response changes the gateway's history only on a successful
\* non-streamed call, by appending exactly one exchange made of the prompt as
\* passed in and the model's content; a streamed call and every failed call
\* (non-200 status, network error, malformed body, timeout) leave the history
\* unchanged.
GenerateRecordsOnlyPlainSuccess ==
    [][/\ (gen'.called /\ ~gen'.stream /\ Succeeded(gen') /\ now' # now) =>
              /\ ~gen'.raised
              /\ llm_history' =
                     LastN(Append(llm_history,
                                  [user |-> gen'.prompt,
                                   assistant |-> ModelContent(gen'.outcome),
                                   timestamp |-> now']),
                           max_history)
              /\ Len(llm_history) < max_history => Len(llm_history') = Len(llm_history) + 1
       /\ (gen'.called /\ (gen'.stream \/ ~Succeeded(gen'))) =>
              /\ llm_history' = llm_history
              /\ now' = now
       /\ (gen'.called /\ ~gen'.stream /\ Succeeded(gen')) => now' # now
       /\ (gen'.called /\ ~Succeeded(gen')) => gen'.raised]_vars

\* C29 witness: a streamed call returned text while the history held the one
\* exchange of an earlier non-streamed call, whose content was kept unstripped.
GenerateRecordsOnlyPlainSuccessWitness ==
    /\ gen.called
    /\ gen.stream
    /\ ~gen.raised
    /\ gen.text = "Hello"
    /\ Len(llm_history) = 1
    /\ llm_history[1].assistant = " ok then "
    /\ llm_history[1].user = "hello"

\* C24: initialization runs at most once while the service stays initialized:
\* when two or more calls make first use of the pipeline concurrently, the ASR
\* model is loaded once and the TTS backend is probed and selected once, and a
\* call to initialize on an initialized service changes nothing.
InitializedOnce ==
    /\ boot.loads <= 1
    /\ boot.probes <= 1

\* C27: after a successful text turn exactly one exchange is appended to the
\* history: its user text is the original message as submitted (not the
\* time-enhanced prompt sent to the model) and its assistant text is exactly
\* the response returned to the caller.
SuccessRecordsOneExchange ==
    [][\A t \in DOMAIN pc :
          LET exchange == [user |-> req[t], assistant |-> reply'.text, timestamp |-> now']
          IN  /\ (pc[t] = "awaiting" /\ pc'[t] = "idle" /\ reply' # reply
                  /\ reply'.code = 200) => now' = now + 1
              /\ (pc[t] = "awaiting" /\ pc'[t] = "idle" /\ now' # now) =>
                     /\ reply'.called
                     /\ reply'.code = 200
                     /\ reply'.task = t
                     /\ recorded' = Append(recorded, exchange)
                     /\ conversation_history' =
                            LastN(Append(conversation_history, exchange), MAX_HISTORY)
                     /\ Len(conversation_history) < MAX_HISTORY =>
                            Len(conversation_history') = Len(conversation_history) + 1]_vars

\* C27 witness: a turn whose prompt was enhanced with the time context
\* succeeded and its exchange is the newest of the history.
SuccessRecordsOneExchangeWitness ==
    /\ reply.called
    /\ reply.code = 200
    /\ req[reply.task] = "what time is it?"
    /\ prompt[reply.task] # req[reply.task]
    /\ conversation_history # << >>
    /\ conversation_history[Len(conversation_history)].user = "what time is it?"
    /\ conversation_history[Len(conversation_history)].assistant = reply.text
    /\ reply.text # "ok then"

NamesCapability(message) == any_in(capability_keywords, str_lower(message))

\* the five answers handle_capability_query can give
ScriptedAnswers ==
    {handle_capability_query(q) : q \in {"voice", "calendar", "search", "document", ""}}

\* C28 as stated: a text turn whose message contains a capability-gate
\* keyword always returns the scripted capability answer: the LLM is never
\* called for it and the history is left unchanged.
CapabilityGateAlways ==
    /\ \A t \in DOMAIN pc : pc[t] = "awaiting" => ~NamesCapability(req[t])
    /\ \A i \in DOMAIN recorded : ~NamesCapability(recorded[i].user)

\* C28, amended: a text turn whose message contains a capability-gate keyword
\* returns the scripted capability answer with status success, without
\* calling the LLM and leaving the history unchanged, unless the message is
\* itself, word for word, the scripted answer chosen for it; such a message
\* is sent to the LLM like any other.
CapabilityGateAnswers ==
    [][/\ \A t \in DOMAIN pc :
             (pc'[t] = "awaiting" /\ NamesCapability(req'[t])) =>
                 /\ req'[t] \in ScriptedAnswers
                 /\ handle_capability_query(req'[t]) = req'[t]
       /\ (budget' < budget /\ pc' = pc) =>
              /\ reply'.code = 200
              /\ ~reply'.called
              /\ reply'.text \in ScriptedAnswers
              /\ conversation_history' = conversation_history
              /\ recorded' = recorded
       /\ (budget' < budget /\ pc' # pc) =>
              \E t \in DOMAIN pc :
                  /\ pc[t] = "idle" /\ pc'[t] = "awaiting"
                  /\ reply' = reply
                  /\ NamesCapability(req'[t]) => req'[t] \in ScriptedAnswers]_vars

\* C28 witness: a message naming a capability was answered from the script
\* while the history held an exchange.
CapabilityGateAnswersWitness ==
    /\ reply.code = 200
    /\ ~reply.called
    /\ reply.text = handle_capability_query("help")
    /\ reply.text \in ScriptedAnswers
    /\ conversation_history # << >>
    /\ \A t \in DOMAIN pc : pc[t] = "idle"

\* C30: every failed text turn ends in exactly one of three outcomes, 408 for
\* a timeout, 503 for a connection failure and 500 for anything else; a
\* status other than 200 from the model runtime is always surfaced as 500 with
\* the other-failure suffix, never with the runtime's own status code.
FailedTurnThreeOutcomes ==
    reply.called =>
        /\ reply.code \in {200, 408, 503, 500}
        /\ reply.code = 200 <=> reply.cause = "none"
        /\ reply.code = 408 <=> reply.cause = "timeout"
        /\ reply.code = 503 <=> reply.cause = "connect"
        /\ reply.code = 500 <=> reply.cause \in {"protocol", "error"}
        /\ str_in(": Ollama API error: ", reply.text) =>
               /\ reply.code = 500
               /\ HasTechnicalMarker(reply.text)
               /\ ~HasTimeoutMarker(reply.text)
               /\ ~HasConnectMarker(reply.text)
               /\ str_in("(Technical details: 404: Ollama API error: ", reply.text)

\* C30 witness: the model runtime answered 404 and the turn ended in 500 with
\* the other-failure suffix.
FailedTurnThreeOutcomesWitness ==
    /\ reply.called
    /\ reply.cause = "protocol"
    /\ reply.code = 500
    /\ str_in("(Technical details: 404: Ollama API error: model not found)", reply.text)
====
